---- MODULE Spec2Model ----
(***************************************************************************)
(* Model of the catalog API: the category router, the product router and   *)
(* the login route, with the relational tables and the uploads directory   *)
(* as state.  A handler is split at its awaits: the step that runs the     *)
(* upload middleware and the synchronous checks, the step at which the     *)
(* SELECT executes (with the synchronous code that follows it), and the    *)
(* step at which the INSERT/UPDATE/DELETE executes and the response is     *)
(* sent.  A handler with a single database access is one step.             *)
(***************************************************************************)
EXTENDS Integers, Sequences, FiniteSets, TLC

VARIABLES category, product, files, nextCategoryId, nextProductId, nextFile,
          users, req, res, started, now

vars == <<category, product, files, nextCategoryId, nextProductId, nextFile,
          users, req, res, started, now>>

(* ------------------------------ bounds --------------------------------- *)

\* rows the category table may be given before create requests stop
MaxCategories == 2
\* files the upload middleware may store before uploads stop
MaxFiles == 2
\* requests a run makes when they arrive one at a time
MaxRequests == 5
\* requests a run makes when two connections are served concurrently
MaxConcurrentRequests == 3
\* requests a run of the product router makes
MaxProductRequests == 3
\* login requests a run makes
MaxLoginRequests == 3

\* rows the product table may be given before create requests stop
MaxProducts == 1
\* files one multipart request may carry
MaxUpload == 11

\* longest username and password a login request carries
MaxUsernameLen == 3
MaxPasswordLen == 6
\* requests in a run of the login route with the token check
MaxAuthRequests == 3
\* requests in a run of concurrent product updates and deletes
MaxRaceRequests == 3
\* hours the clock runs for: past the expiry of a token issued at the start
MaxClock == 25

\* limits.files and array('images', 10) of the product router's multer
LimitFiles == 10

Workers == {1, 2}

Names == {"Pumps", "Valves"}
Descriptions == {"Industrial pumps unit"}
\* "" is an absent (or empty) multipart field
NameInputs == Names \cup {""}
DescriptionInputs == Descriptions \cup {""}

\* the file part of a multipart request
FileInputs == {"none", "png", "gif"}

\* :id path parameters, as character sequences
IdParams == {<<"1">>, <<"2">>, <<"a">>, <<"2", "a">>}

\* keys of a product's machineData: the two the router writes and two of the
\* caller's own
Keys == {"images", "categories", "power", "torque"}

NoValues == [k \in Keys |-> <<>>]

\* a JSON object over Keys: the keys it has and their values
Object(has, val) == [has |-> has, val |-> [k \in Keys |-> IF k \in has THEN val[k] ELSE <<>>]]

EmptyObject == Object({}, NoValues)

\* the machineData form field: absent, not JSON, or a JSON object
Undefined == [kind |-> "undefined", json |-> EmptyObject]
Invalid == [kind |-> "invalid", json |-> EmptyObject]
Json(o) == [kind |-> "object", json |-> o]

PowerOnly == Json(Object({"power"}, [NoValues EXCEPT !.power = <<1>>]))

PowerAndTorque ==
  Json(Object({"power", "torque"}, [NoValues EXCEPT !.power = <<2>>, !.torque = <<2>>]))

\* the categoryIds form field: absent, not JSON, or an array of numbers
NoIds == [kind |-> "undefined", ids |-> <<>>]
BadIds == [kind |-> "invalid", ids |-> <<>>]
Ids(a) == [kind |-> "array", ids |-> a]

PriceInputs == {"undefined", "10"}

\* a multipart request's files: how many the filter accepts, how many it does not
Upload(nOk, nBad) == [nOk |-> nOk, nBad |-> nBad]

UploadInputs == {Upload(n, b) : n \in {0, 1, LimitFiles, MaxUpload}, b \in 0..1}

\* strings over an alphabet, up to a length
RECURSIVE Strings(_, _)
Strings(alphabet, n) ==
  IF n = 0 THEN {<<>>}
  ELSE LET shorter == Strings(alphabet, n - 1)
       IN shorter \cup {Append(t, c) : t \in {x \in shorter : Len(x) = n - 1},
                                        c \in alphabet}

Repeat(c, n) == [i \in 1..n |-> c]

\* passwords one character short of MaxPasswordLen and of that length
Passwords ==
  {Append(Repeat("x", n - 1), c) : n \in (MaxPasswordLen - 1)..MaxPasswordLen,
                                   c \in {"x", "y"}}
    \cup {Repeat("y", MaxPasswordLen)}

LoginInputs == [usernames |-> Strings({"a", "b"}, MaxUsernameLen),
                passwords |-> Passwords,
                requests |-> MaxLoginRequests]

\* the requests a specification draws from: every kind of category request
AllInputs == [names |-> NameInputs, descriptions |-> DescriptionInputs,
              files |-> FileInputs, ids |-> IdParams, requests |-> MaxRequests]

\* category requests that pass the upload filter and the first checks
ValidInputs == [names |-> NameInputs, descriptions |-> Descriptions,
                files |-> {"none", "png"}, ids |-> {<<"1">>, <<"2">>},
                requests |-> MaxConcurrentRequests]

\* product requests that exercise the attribute bag: creates with and without
\* a bag, category IDs and an image; updates of every shape
BagInputs == [names |-> {"Pumps"}, descriptions |-> Descriptions,
              ids |-> {<<"1">>, <<"2">>},
              createBags |-> {Undefined, PowerAndTorque},
              createIds |-> {NoIds, Ids(<<2, 1>>)},
              createPrices |-> {"undefined"},
              createUploads |-> {Upload(0, 0), Upload(1, 0)},
              bags |-> {Undefined, PowerOnly, PowerAndTorque},
              categoryIds |-> {NoIds, Ids(<<2, 1>>), Ids(<<3>>)},
              prices |-> PriceInputs,
              uploads |-> {Upload(0, 0)},
              requests |-> MaxProductRequests]

\* product requests that exercise the upload middleware
UploadingInputs == [names |-> {"Pumps", ""}, descriptions |-> Descriptions,
                    ids |-> IdParams,
                    createBags |-> {Undefined}, createIds |-> {NoIds},
                    createPrices |-> {"undefined"},
                    createUploads |-> UploadInputs,
                    bags |-> {Undefined, Invalid}, categoryIds |-> {NoIds, BadIds},
                    prices |-> {"10"},
                    uploads |-> UploadInputs,
                    requests |-> MaxProductRequests]

(* --------------------------- status codes ------------------------------ *)

OK == 200
CREATED == 201
BAD_REQUEST == 400
UNAUTHORIZED == 401
FORBIDDEN == 403
NOT_FOUND == 404
CONFLICT == 409
INTERNAL_SERVER_ERROR == 500

(* ------------------------- values and helpers -------------------------- *)

NaN == -1
Null == <<>>

DigitChars == {"0", "1", "2", "3", "4", "5", "6", "7", "8", "9"}

DigitValue(c) ==
  CASE c = "0" -> 0 [] c = "1" -> 1 [] c = "2" -> 2 [] c = "3" -> 3
    [] c = "4" -> 4 [] c = "5" -> 5 [] c = "6" -> 6 [] c = "7" -> 7
    [] c = "8" -> 8 [] c = "9" -> 9

RECURSIVE LeadingDigits(_, _)
LeadingDigits(s, acc) ==
  IF s = <<>> \/ Head(s) \notin DigitChars
    THEN acc
    ELSE LeadingDigits(Tail(s), acc * 10 + DigitValue(Head(s)))

\* parseInt(req.params.id): the longest decimal prefix, NaN when there is none
parseInt(s) ==
  IF s = <<>> \/ Head(s) \notin DigitChars THEN NaN ELSE LeadingDigits(s, 0)

\* z.string().regex(/^\d+$/)
categoryIdSchema(s) == s # <<>> /\ \A i \in 1..Len(s) : s[i] \in DigitChars

\* fileFilter: extension and MIME type both match /jpeg|jpg|png|webp/
AllowedImage(f) == f = "png"

\* `${IMAGE_URL_PREFIX}/${req.file.filename}`
ImageUrl(dir, fn) == <<"/", "uploads", dir, fn>>

\* path.join(process.cwd(), imageUrl.replace(/^\//, "")), relative to cwd
ImagePath(url) == IF url # <<>> /\ Head(url) = "/" THEN Tail(url) ELSE url

\* multer.diskStorage: path.join(UPLOAD_DIR, dir) / filename
StoredPath(dir, fn) == <<"uploads", dir, fn>>

NoRow == [id |-> 0, name |-> "", description |-> "", imageUrl |-> Null]

NoProduct == [id |-> 0, name |-> "", price |-> "null", machineData |-> EmptyObject]

NoUser == [id |-> 0, username |-> <<>>, password |-> <<>>]

\* process.env.JWT_SECRET || "your-secret-key"
JWT_SECRET == "your-secret-key"

\* expiresIn: "24h", in hours (the unit of the clock)
ExpiresIn == 24

\* jwt.sign(payload, secret, { expiresIn }): the token carries the payload, the
\* time it was issued at, the time it expires at, and a signature that only
\* the signing secret verifies
sign(payload, secret, expiresIn) ==
  [payload |-> payload, iat |-> now, exp |-> now + expiresIn, secret |-> secret]

\* jwt.sign({ userId, username }, JWT_SECRET, { expiresIn: "24h" })
generateToken(userId, username) ==
  sign([userId |-> userId, username |-> username], JWT_SECRET, ExpiresIn)

NoToken == [payload |-> [userId |-> 0, username |-> <<>>], iat |-> 0, exp |-> 0,
            secret |-> ""]

\* req.user before the middleware sets it
NoUserPayload == [userId |-> 0, username |-> <<>>, iat |-> 0, exp |-> 0]

NoBody == [error |-> "", success |-> FALSE, message |-> <<>>, row |-> NoRow,
           product |-> NoProduct, categories |-> {}, list |-> {},
           token |-> NoToken, user |-> [id |-> 0, username |-> <<>>]]

NoResponse == [status |-> 0, body |-> NoBody]

ErrorResponse(st, e) == [status |-> st, body |-> [NoBody EXCEPT !.error = e]]

RowResponse(st, r) == [status |-> st, body |-> [NoBody EXCEPT !.row = r]]

\* { success: true, message: `Successfully deleted '${name}'` }
DeletedResponse(n) ==
  [status |-> OK,
   body |-> [NoBody EXCEPT !.success = TRUE,
                            !.message = <<"Successfully deleted '", n, "'">>]]

Idle == [op |-> "idle", pc |-> "done", id |-> 0, name |-> "", description |-> "",
         upload |-> "none", file |-> 0, found |-> NoRow, logged |-> FALSE,
         machineData |-> Undefined, categoryIds |-> NoIds, price |-> "undefined",
         images |-> Upload(0, 0), filenames |-> <<>>, existing |-> NoProduct,
         username |-> <<>>, password |-> <<>>, existingUser |-> NoUser,
         header |-> <<>>, user |-> NoUserPayload, nextCalls |-> 0,
         param |-> <<>>]

\* a request whose response is sent: what the connection still shows of it
Finished(r) == [Idle EXCEPT !.op = r.op, !.id = r.id, !.upload = r.upload,
                            !.file = r.file, !.found = r.found,
                            !.logged = r.logged, !.images = r.images,
                            !.existing = r.existing, !.username = r.username,
                            !.password = r.password,
                            !.existingUser = r.existingUser,
                            !.header = r.header, !.user = r.user,
                            !.nextCalls = r.nextCalls, !.param = r.param]

\* db.select().from(category).where(eq(category.id, id)).limit(1)
CategoryById(id) == {r \in category : r.id = id}

\* db.select().from(category).where(eq(category.name, name)).limit(1)
CategoryByName(n) == {r \in category : r.name = n}

\* the connection is free and the run may make another request
Accept(w, I) ==
  /\ req[w].pc = "done"
  /\ started < I.requests
  /\ started' = started + 1

Respond(w, r) == res' = [res EXCEPT ![w] = r]

(* ------------------------------- Init ---------------------------------- *)

Init ==
  /\ category = {}
  /\ product = {}
  /\ files = {}
  /\ nextCategoryId = 1
  /\ nextProductId = 1
  /\ nextFile = 1
  /\ users = {}
  /\ req = [w \in Workers |-> Idle]
  /\ res = [w \in Workers |-> NoResponse]
  /\ started = 0
  /\ now = 0

(* ------------------------ category router ------------------------------ *)

\* upload.single("image") of the category router: a rejected file type ends the
\* request in Express's default error handler (500); an accepted file is on
\* disk before the handler runs
CategoryUploadRejected(f) == f # "none" /\ ~AllowedImage(f)

CategoryUploadStores(f) == f # "none" /\ AllowedImage(f)

\* POST /categories: upload, then the required-field check
CategoryCreate(w, I) ==
  /\ Accept(w, I)
  /\ nextCategoryId <= MaxCategories
  /\ \E n \in I.names, d \in I.descriptions, f \in I.files :
       /\ CategoryUploadStores(f) => nextFile <= MaxFiles
       /\ LET stored == CategoryUploadStores(f)
              fn == IF stored THEN nextFile ELSE 0
              r == [Idle EXCEPT !.op = "categoryCreate", !.name = n,
                                !.description = d, !.upload = f, !.file = fn]
          IN /\ files' = IF stored THEN files \cup {StoredPath("categories", fn)}
                                     ELSE files
             /\ nextFile' = IF stored THEN nextFile + 1 ELSE nextFile
             /\ IF CategoryUploadRejected(f)
                  THEN /\ req' = [req EXCEPT ![w] = Finished(r)]
                       /\ Respond(w, ErrorResponse(INTERNAL_SERVER_ERROR,
                                                   "Only image files are allowed"))
                  ELSE IF n = "" \/ d = ""
                  THEN /\ req' = [req EXCEPT ![w] = Finished(r)]
                       /\ Respond(w, ErrorResponse(BAD_REQUEST,
                                         "Name and description are required"))
                  ELSE /\ req' = [req EXCEPT ![w] = [r EXCEPT !.pc = "select"]]
                       /\ Respond(w, NoResponse)
  /\ UNCHANGED <<category, product, nextCategoryId, nextProductId, users, now>>

\* the existence check by name
CategoryCreateSelect(w) ==
  /\ req[w].op = "categoryCreate" /\ req[w].pc = "select"
  /\ IF CategoryByName(req[w].name) # {}
       THEN /\ req' = [req EXCEPT ![w] = Finished(req[w])]
            /\ Respond(w, ErrorResponse(CONFLICT, "Category already exists"))
       ELSE /\ req' = [req EXCEPT ![w].pc = "write"]
            /\ UNCHANGED res
  /\ UNCHANGED <<category, product, files, nextCategoryId, nextProductId,
                 nextFile, users, now, started>>

\* db.insert(category).values({name, description, imageUrl}).returning():
\* the table declares no unique constraint on name, so the insert succeeds
CategoryCreateInsert(w) ==
  /\ req[w].op = "categoryCreate" /\ req[w].pc = "write"
  /\ LET row == [id |-> nextCategoryId, name |-> req[w].name,
                 description |-> req[w].description,
                 imageUrl |-> IF req[w].file # 0
                                THEN ImageUrl("categories", req[w].file)
                                ELSE Null]
     IN /\ category' = category \cup {row}
        /\ nextCategoryId' = nextCategoryId + 1
        /\ Respond(w, RowResponse(CREATED, row))
  /\ req' = [req EXCEPT ![w] = Finished(req[w])]
  /\ UNCHANGED <<product, files, nextProductId, nextFile, users, now, started>>

\* GET /categories/:id
CategoryGetById(w, I) ==
  /\ Accept(w, I)
  /\ \E p \in I.ids :
       LET id == parseInt(p)
       IN /\ req' = [req EXCEPT ![w] = [Idle EXCEPT !.op = "categoryGetById",
                                                    !.param = p, !.id = id]]
          /\ IF id = NaN
               THEN Respond(w, ErrorResponse(BAD_REQUEST,
                                             "Invalid category ID format"))
               ELSE IF CategoryById(id) = {}
               THEN Respond(w, ErrorResponse(NOT_FOUND, "Category not found"))
               ELSE Respond(w, RowResponse(OK, CHOOSE r \in CategoryById(id) : TRUE))
  /\ UNCHANGED <<category, product, files, nextCategoryId, nextProductId,
                 nextFile, users, now>>

\* a removal that removes nothing
UnlinkNothing(fs, path, ok) == fs

\* fs.existsSync(path) && fs.unlinkSync(path) inside try/catch: the file is
\* removed, or the removal throws and the error is only logged
Unlink(fs, path, ok) == IF path \in fs /\ ok THEN fs \ {path} ELSE fs

\* the catch branch: console.error("Error deleting ... image:", error)
UnlinkLogged(fs, path, ok) == path \in fs /\ ~ok

\* PUT /categories/:id: upload, then the id check
CategoryUpdate(w, I) ==
  /\ Accept(w, I)
  /\ \E p \in I.ids, n \in I.names, d \in I.descriptions, f \in I.files :
       /\ CategoryUploadStores(f) => nextFile <= MaxFiles
       /\ LET stored == CategoryUploadStores(f)
              fn == IF stored THEN nextFile ELSE 0
              id == parseInt(p)
              r == [Idle EXCEPT !.op = "categoryUpdate", !.param = p, !.id = id, !.name = n,
                                !.description = d, !.upload = f, !.file = fn]
          IN /\ files' = IF stored THEN files \cup {StoredPath("categories", fn)}
                                     ELSE files
             /\ nextFile' = IF stored THEN nextFile + 1 ELSE nextFile
             /\ IF CategoryUploadRejected(f)
                  THEN /\ req' = [req EXCEPT ![w] = Finished(r)]
                       /\ Respond(w, ErrorResponse(INTERNAL_SERVER_ERROR,
                                                   "Only image files are allowed"))
                  ELSE IF id = NaN
                  THEN /\ req' = [req EXCEPT ![w] = Finished(r)]
                       /\ Respond(w, ErrorResponse(BAD_REQUEST,
                                                   "Invalid category ID format"))
                  ELSE /\ req' = [req EXCEPT ![w] = [r EXCEPT !.pc = "select"]]
                       /\ Respond(w, NoResponse)
  /\ UNCHANGED <<category, product, nextCategoryId, nextProductId, users, now>>

\* the existence check by id, then the removal of the old image
CategoryUpdateSelect(w) ==
  /\ req[w].op = "categoryUpdate" /\ req[w].pc = "select"
  /\ IF CategoryById(req[w].id) = {}
       THEN /\ req' = [req EXCEPT ![w] = Finished(req[w])]
            /\ Respond(w, ErrorResponse(NOT_FOUND, "Category not found"))
            /\ UNCHANGED files
       ELSE LET existing == CHOOSE r \in CategoryById(req[w].id) : TRUE
            IN /\ UNCHANGED res
               /\ IF req[w].file # 0 /\ existing.imageUrl # Null
                    THEN \E ok \in BOOLEAN :
                           LET path == ImagePath(existing.imageUrl)
                           IN /\ files' = Unlink(files, path, ok)
                              /\ req' = [req EXCEPT ![w].pc = "write",
                                                     ![w].found = existing,
                                                     ![w].logged =
                                                        UnlinkLogged(files, path, ok)]
                    ELSE /\ UNCHANGED files
                         /\ req' = [req EXCEPT ![w].pc = "write",
                                                ![w].found = existing]
  /\ UNCHANGED <<category, product, nextCategoryId, nextProductId, nextFile, users, now, started>>

\* an updateData that leaves the new image out
UpdateDataWithoutImage(r, row) ==
  [row EXCEPT !.name = IF r.name # "" THEN r.name ELSE @,
              !.description = IF r.description # "" THEN r.description ELSE @]

\* updateData: the fields the request supplies
CategoryUpdateData(r, row) ==
  [row EXCEPT !.name = IF r.name # "" THEN r.name ELSE @,
              !.description = IF r.description # "" THEN r.description ELSE @,
              !.imageUrl = IF r.file # 0 THEN ImageUrl("categories", r.file) ELSE @]

CategoryUpdateDataEmpty(r) == r.name = "" /\ r.description = "" /\ r.file = 0

\* db.update(category).set(updateData).where(eq(category.id, id)).returning():
\* an empty updateData makes set() throw (500); a row deleted since the check
\* makes returning() empty, and the response is 200 with no body
CategoryUpdateWrite(w) ==
  /\ req[w].op = "categoryUpdate" /\ req[w].pc = "write"
  /\ req' = [req EXCEPT ![w] = Finished(req[w])]
  /\ IF CategoryUpdateDataEmpty(req[w])
       THEN /\ Respond(w, ErrorResponse(INTERNAL_SERVER_ERROR, "Internal server error"))
            /\ UNCHANGED category
       ELSE IF CategoryById(req[w].id) = {}
       THEN /\ Respond(w, RowResponse(OK, NoRow))
            /\ UNCHANGED category
       ELSE LET old == CHOOSE r \in CategoryById(req[w].id) : TRUE
                new == CategoryUpdateData(req[w], old)
            IN /\ category' = (category \ {old}) \cup {new}
               /\ Respond(w, RowResponse(OK, new))
  /\ UNCHANGED <<product, files, nextCategoryId, nextProductId, nextFile, users, now, started>>

\* DELETE /categories/:id: validateRequest({ params: categoryIdSchema })
CategoryDelete(w, I) ==
  /\ Accept(w, I)
  /\ \E p \in I.ids :
       IF ~categoryIdSchema(p)
         THEN /\ req' = [req EXCEPT ![w] = [Idle EXCEPT !.op = "categoryDelete",
                                                        !.id = NaN,
                                                        !.param = p]]
              /\ Respond(w, ErrorResponse(BAD_REQUEST, "Validation error"))
         ELSE /\ req' = [req EXCEPT ![w] = [Idle EXCEPT !.op = "categoryDelete",
                                                        !.id = parseInt(p),
                                                        !.param = p,
                                                        !.pc = "select"]]
              /\ Respond(w, NoResponse)
  /\ UNCHANGED <<category, product, files, nextCategoryId, nextProductId,
                 nextFile, users, now>>

\* the existence check by id, then the removal of the image
CategoryDeleteSelect(w) ==
  /\ req[w].op = "categoryDelete" /\ req[w].pc = "select"
  /\ IF CategoryById(req[w].id) = {}
       THEN /\ req' = [req EXCEPT ![w] = Finished(req[w])]
            /\ Respond(w, ErrorResponse(NOT_FOUND, "Category not found"))
            /\ UNCHANGED files
       ELSE LET found == CHOOSE r \in CategoryById(req[w].id) : TRUE
            IN /\ UNCHANGED res
               /\ IF found.imageUrl # Null
                    THEN \E ok \in BOOLEAN :
                           LET path == ImagePath(found.imageUrl)
                           IN /\ files' = Unlink(files, path, ok)
                              /\ req' = [req EXCEPT ![w].pc = "write",
                                                     ![w].found = found,
                                                     ![w].logged =
                                                        UnlinkLogged(files, path, ok)]
                    ELSE /\ UNCHANGED files
                         /\ req' = [req EXCEPT ![w].pc = "write",
                                                ![w].found = found]
  /\ UNCHANGED <<category, product, nextCategoryId, nextProductId, nextFile, users, now, started>>

\* db.delete(category).where(eq(category.id, id)), then the success response
CategoryDeleteWrite(w) ==
  /\ req[w].op = "categoryDelete" /\ req[w].pc = "write"
  /\ req' = [req EXCEPT ![w] = Finished(req[w])]
  /\ category' = category \ CategoryById(req[w].id)
  /\ Respond(w, DeletedResponse(req[w].found.name))
  /\ UNCHANGED <<product, files, nextCategoryId, nextProductId, nextFile, users, now, started>>

CategoryStep(w, I) ==
  \/ CategoryCreate(w, I)
  \/ CategoryCreateSelect(w)
  \/ CategoryCreateInsert(w)
  \/ CategoryGetById(w, I)
  \/ CategoryUpdate(w, I)
  \/ CategoryUpdateSelect(w)
  \/ CategoryUpdateWrite(w)
  \/ CategoryDelete(w, I)
  \/ CategoryDeleteSelect(w)
  \/ CategoryDeleteWrite(w)

\* the category router under concurrent requests
Next == \E w \in Workers : CategoryStep(w, ValidInputs)

Spec == Init /\ [][Next]_vars

\* the category router with one request at a time
SeqNext == CategoryStep(1, AllInputs)

SeqSpec == Init /\ [][SeqNext]_vars

\* a database write that throws (connection lost, statement timeout): tryCatch
\* answers 500 and the table is as it was
CategoryWriteFails(w) ==
  /\ req[w].op \in {"categoryCreate", "categoryUpdate", "categoryDelete"}
  /\ req[w].pc = "write"
  /\ req' = [req EXCEPT ![w] = Finished(req[w])]
  /\ Respond(w, ErrorResponse(INTERNAL_SERVER_ERROR, "Internal server error"))
  /\ UNCHANGED <<category, product, files, nextCategoryId, nextProductId,
                 nextFile, users, now, started>>

\* the category router, one request at a time, over a database whose writes
\* may fail
FaultNext == CategoryStep(1, AllInputs) \/ CategoryWriteFails(1)

FaultSpec == Init /\ [][FaultNext]_vars

(* ------------------------- product router ------------------------------ *)

\* db.select().from(product).where(eq(product.id, id)).limit(1)
ProductById(id) == {r \in product : r.id = id}

ProductResponse(st, r) == [status |-> st, body |-> [NoBody EXCEPT !.product = r]]

\* a limit that counts only the files the filter accepts
TooManyAccepted(u) == u.nOk > LimitFiles

\* multer with limits.files = 10 and .array('images', 10): one file too many
\* is a MulterError, and multer removes what it had stored for the request
UploadTooMany(u) == u.nOk + u.nBad > LimitFiles

\* req.files: the files the filter accepted (the others are skipped silently),
\* under fresh names
UploadedNames(u, next) ==
  IF UploadTooMany(u) THEN <<>> ELSE [i \in 1..u.nOk |-> next + i - 1]

\* file => `${IMAGE_URL_PREFIX}/${file.filename}`
ImageUrls(fns) == [i \in 1..Len(fns) |-> ImageUrl("products", fns[i])]

StoredPaths(fns) == {StoredPath("products", fns[i]) : i \in 1..Len(fns)}

\* { ...parsedMachineData, images: imageUrls, categories: parsedCategoryIds }
NewMachineData(md, urls, ids) ==
  Object(md.has \cup {"images", "categories"},
         [md.val EXCEPT !.images = urls, !.categories = ids])

\* a merge that forgets the stored bag
MergeOntoNothing(existing, md, cids) ==
  IF cids.kind = "array"
    THEN Object(md.has \cup {"categories"}, [md.val EXCEPT !.categories = cids.ids])
    ELSE md

\* { ...existingMachineData, ...parsedMachineData,
\*   ...(parsedCategoryIds !== undefined && { categories: parsedCategoryIds }) }
MergeMachineData(existing, md, cids) ==
  LET spread == Object(existing.has \cup md.has,
                       [k \in Keys |-> IF k \in md.has THEN md.val[k]
                                                       ELSE existing.val[k]])
  IN IF cids.kind = "array"
       THEN Object(spread.has \cup {"categories"},
                   [spread.val EXCEPT !.categories = cids.ids])
       ELSE spread

\* POST /products: upload, the required fields, the two JSON fields, the insert
ProductCreate(w, I) ==
  /\ Accept(w, I)
  /\ nextProductId <= MaxProducts
  /\ \E n \in I.names, d \in I.descriptions, pr \in I.createPrices,
        md \in I.createBags, cids \in I.createIds, u \in I.createUploads :
       /\ u.nOk > 0 => nextFile <= MaxFiles
       /\ LET fns == UploadedNames(u, nextFile)
              r == [Idle EXCEPT !.op = "productCreate", !.name = n,
                                !.description = d, !.price = pr,
                                !.machineData = md, !.categoryIds = cids,
                                !.images = u, !.filenames = fns]
              row == [id |-> nextProductId, name |-> n,
                      price |-> IF pr = "undefined" THEN "null" ELSE pr,
                      machineData |-> NewMachineData(md.json, ImageUrls(fns),
                                                     cids.ids)]
          IN /\ files' = files \cup StoredPaths(fns)
             /\ nextFile' = nextFile + Len(fns)
             /\ req' = [req EXCEPT ![w] = Finished(r)]
             /\ IF UploadTooMany(u)
                  THEN /\ Respond(w, ErrorResponse(BAD_REQUEST, "Upload error"))
                       /\ UNCHANGED <<product, nextProductId>>
                  ELSE IF n = "" \/ d = ""
                  THEN /\ Respond(w, ErrorResponse(BAD_REQUEST,
                                         "Name and description are required"))
                       /\ UNCHANGED <<product, nextProductId>>
                  ELSE IF md.kind = "invalid"
                  THEN /\ Respond(w, ErrorResponse(BAD_REQUEST,
                                                   "Invalid machine data format"))
                       /\ UNCHANGED <<product, nextProductId>>
                  ELSE IF cids.kind = "invalid"
                  THEN /\ Respond(w, ErrorResponse(BAD_REQUEST,
                                                   "Invalid category IDs format"))
                       /\ UNCHANGED <<product, nextProductId>>
                  ELSE /\ product' = product \cup {row}
                       /\ nextProductId' = nextProductId + 1
                       /\ Respond(w, ProductResponse(CREATED, row))
  /\ UNCHANGED <<category, nextCategoryId, users, now>>

\* the elements of a category-ID list
IdsOf(a) == {a[i] : i \in 1..Len(a)}

\* GET /products: categories.filter(cat => machineData.categories?.includes(cat.id))
ListCategories(p, cats) ==
  {c \in cats : /\ "categories" \in p.machineData.has
                /\ \E i \in 1..Len(p.machineData.val.categories) :
                     p.machineData.val.categories[i] = c.id}

\* a lookup by the first id of the list only
GetByFirstId(p, cats) ==
  IF "categories" \in p.machineData.has /\ Len(p.machineData.val.categories) # 0
    THEN {c \in cats : c.id = Head(p.machineData.val.categories)}
    ELSE {}

\* GET /products/:id: if (machineData.categories?.length)
\*   select from category where inArray(category.id, machineData.categories)
GetByIdCategories(p, cats) ==
  IF "categories" \in p.machineData.has /\ Len(p.machineData.val.categories) # 0
    THEN {c \in cats : c.id \in IdsOf(p.machineData.val.categories)}
    ELSE {}

\* GET /products
ProductList(w, I) ==
  /\ Accept(w, I)
  /\ req' = [req EXCEPT ![w] = [Idle EXCEPT !.op = "productList"]]
  /\ Respond(w, [status |-> OK,
                 body |-> [NoBody EXCEPT !.list =
                    {[product |-> p, categories |-> ListCategories(p, category)] :
                       p \in product}]])
  /\ UNCHANGED <<category, product, files, nextCategoryId, nextProductId,
                 nextFile, users, now>>

\* GET /products/:id: the id check and the product select
ProductGetById(w, I) ==
  /\ Accept(w, I)
  /\ \E p \in I.ids :
       LET id == parseInt(p)
           r == [Idle EXCEPT !.op = "productGetById", !.param = p, !.id = id]
       IN IF id = NaN
            THEN /\ req' = [req EXCEPT ![w] = r]
                 /\ Respond(w, ErrorResponse(BAD_REQUEST, "Invalid product ID format"))
            ELSE IF ProductById(id) = {}
            THEN /\ req' = [req EXCEPT ![w] = r]
                 /\ Respond(w, ErrorResponse(NOT_FOUND, "Product not found"))
            ELSE /\ req' = [req EXCEPT ![w] =
                              [r EXCEPT !.pc = "resolve",
                                        !.existing = CHOOSE x \in ProductById(id) : TRUE]]
                 /\ Respond(w, NoResponse)
  /\ UNCHANGED <<category, product, files, nextCategoryId, nextProductId,
                 nextFile, users, now>>

\* the category select of GET /products/:id, and the response
ProductGetByIdResolve(w) ==
  /\ req[w].op = "productGetById" /\ req[w].pc = "resolve"
  /\ req' = [req EXCEPT ![w] = Finished(req[w])]
  /\ Respond(w, [status |-> OK,
                 body |-> [NoBody EXCEPT !.product = req[w].existing,
                                         !.categories =
                                            GetByIdCategories(req[w].existing, category)]])
  /\ UNCHANGED <<category, product, files, nextCategoryId, nextProductId,
                 nextFile, users, now, started>>

\* PUT /products/:id: upload, then the id check
ProductUpdate(w, I) ==
  /\ Accept(w, I)
  /\ \E p \in I.ids, pr \in I.prices, md \in I.bags, cids \in I.categoryIds,
        u \in I.uploads :
       /\ u.nOk > 0 => nextFile <= MaxFiles
       /\ LET fns == UploadedNames(u, nextFile)
              id == parseInt(p)
              r == [Idle EXCEPT !.op = "productUpdate", !.param = p, !.id = id, !.price = pr, !.machineData = md,
                                !.categoryIds = cids, !.images = u,
                                !.filenames = fns]
          IN /\ files' = files \cup StoredPaths(fns)
             /\ nextFile' = nextFile + Len(fns)
             /\ IF UploadTooMany(u)
                  THEN /\ req' = [req EXCEPT ![w] = Finished(r)]
                       /\ Respond(w, ErrorResponse(BAD_REQUEST, "Upload error"))
                  ELSE IF id = NaN
                  THEN /\ req' = [req EXCEPT ![w] = Finished(r)]
                       /\ Respond(w, ErrorResponse(BAD_REQUEST,
                                                   "Invalid product ID format"))
                  ELSE /\ req' = [req EXCEPT ![w] = [r EXCEPT !.pc = "select"]]
                       /\ Respond(w, NoResponse)
  /\ UNCHANGED <<category, product, nextCategoryId, nextProductId, users, now>>

\* the existence check by id, then the parsing of the two JSON fields
ProductUpdateSelect(w) ==
  /\ req[w].op = "productUpdate" /\ req[w].pc = "select"
  /\ IF ProductById(req[w].id) = {}
       THEN /\ req' = [req EXCEPT ![w] = Finished(req[w])]
            /\ Respond(w, ErrorResponse(NOT_FOUND, "Product not found"))
       ELSE IF req[w].machineData.kind = "invalid"
       THEN /\ req' = [req EXCEPT ![w] = Finished(req[w])]
            /\ Respond(w, ErrorResponse(BAD_REQUEST, "Invalid machine data format"))
       ELSE IF req[w].categoryIds.kind = "invalid"
       THEN /\ req' = [req EXCEPT ![w] = Finished(req[w])]
            /\ Respond(w, ErrorResponse(BAD_REQUEST, "Invalid category IDs format"))
       ELSE /\ req' = [req EXCEPT ![w].pc = "write",
                                  ![w].existing =
                                     CHOOSE x \in ProductById(req[w].id) : TRUE]
            /\ UNCHANGED res
  /\ UNCHANGED <<category, product, files, nextCategoryId, nextProductId,
                 nextFile, users, now, started>>

\* if (parsedMachineData !== undefined || parsedCategoryIds !== undefined)
SetsMachineData(r) == r.machineData.kind = "object" \/ r.categoryIds.kind = "array"

\* updateData applied to the stored row: machineData is the merge onto the row
\* the handler read, the other columns are the request's
ProductUpdateData(r, row) ==
  [row EXCEPT !.name = IF r.name # "" THEN r.name ELSE @,
              !.price = IF r.price # "undefined" THEN r.price ELSE @,
              !.machineData = IF SetsMachineData(r)
                                THEN MergeMachineData(r.existing.machineData,
                                                      r.machineData.json,
                                                      r.categoryIds)
                                ELSE @]

ProductUpdateDataEmpty(r) ==
  r.name = "" /\ r.price = "undefined" /\ ~SetsMachineData(r)

\* db.update(product).set(updateData).where(eq(product.id, id)).returning()
ProductUpdateWrite(w) ==
  /\ req[w].op = "productUpdate" /\ req[w].pc = "write"
  /\ req' = [req EXCEPT ![w] = Finished(req[w])]
  /\ IF ProductUpdateDataEmpty(req[w])
       THEN /\ Respond(w, ErrorResponse(INTERNAL_SERVER_ERROR, "Internal server error"))
            /\ UNCHANGED product
       ELSE IF ProductById(req[w].id) = {}
       THEN /\ Respond(w, ProductResponse(OK, NoProduct))
            /\ UNCHANGED product
       ELSE LET old == CHOOSE x \in ProductById(req[w].id) : TRUE
                new == ProductUpdateData(req[w], old)
            IN /\ product' = (product \ {old}) \cup {new}
               /\ Respond(w, ProductResponse(OK, new))
  /\ UNCHANGED <<category, files, nextCategoryId, nextProductId, nextFile,
                 users, now, started>>

\* z.string().regex(/^\d+$/).transform(Number)
productIdSchema(s) == s # <<>> /\ \A i \in 1..Len(s) : s[i] \in DigitChars

\* DELETE /products/:id: validateRequest({ params: productIdSchema })
ProductDelete(w, I) ==
  /\ Accept(w, I)
  /\ \E p \in I.ids :
       IF ~productIdSchema(p)
         THEN /\ req' = [req EXCEPT ![w] = [Idle EXCEPT !.op = "productDelete",
                                                        !.id = NaN,
                                                        !.param = p]]
              /\ Respond(w, ErrorResponse(BAD_REQUEST, "Validation error"))
         ELSE /\ req' = [req EXCEPT ![w] = [Idle EXCEPT !.op = "productDelete",
                                                        !.id = parseInt(p),
                                                        !.param = p,
                                                        !.pc = "select"]]
              /\ Respond(w, NoResponse)
  /\ UNCHANGED <<category, product, files, nextCategoryId, nextProductId,
                 nextFile, users, now>>

ProductDeleteSelect(w) ==
  /\ req[w].op = "productDelete" /\ req[w].pc = "select"
  /\ IF ProductById(req[w].id) = {}
       THEN /\ req' = [req EXCEPT ![w] = Finished(req[w])]
            /\ Respond(w, ErrorResponse(NOT_FOUND, "Product not found"))
       ELSE /\ req' = [req EXCEPT ![w].pc = "write",
                                  ![w].existing =
                                     CHOOSE x \in ProductById(req[w].id) : TRUE]
            /\ UNCHANGED res
  /\ UNCHANGED <<category, product, files, nextCategoryId, nextProductId,
                 nextFile, users, now, started>>

\* db.delete(product).where(eq(product.id, id)): the row goes, its files stay
ProductDeleteWrite(w) ==
  /\ req[w].op = "productDelete" /\ req[w].pc = "write"
  /\ req' = [req EXCEPT ![w] = Finished(req[w])]
  /\ product' = product \ ProductById(req[w].id)
  /\ Respond(w, DeletedResponse(req[w].existing.name))
  /\ UNCHANGED <<category, files, nextCategoryId, nextProductId, nextFile,
                 users, now, started>>

ProductStep(w, I) ==
  \/ ProductCreate(w, I)
  \/ ProductList(w, I)
  \/ ProductGetById(w, I)
  \/ ProductGetByIdResolve(w)
  \/ ProductUpdate(w, I)
  \/ ProductUpdateSelect(w)
  \/ ProductUpdateWrite(w)
  \/ ProductDelete(w, I)
  \/ ProductDeleteSelect(w)
  \/ ProductDeleteWrite(w)

\* category tables the product router may find: rows 1 and 2, or row 1 alone
\* (row 2 deleted since)
CategoryTables ==
  LET pumps == [id |-> 1, name |-> "Pumps", description |-> "Industrial pumps unit",
                imageUrl |-> Null]
      valves == [id |-> 2, name |-> "Valves", description |-> "Industrial pumps unit",
                 imageUrl |-> Null]
  IN {{pumps, valves}, {pumps}}

\* a row written before the router kept images and categories in the bag
LegacyProduct == [id |-> 1, name |-> "Pumps", price |-> "null",
                  machineData |-> EmptyObject]

ProductInit ==
  /\ category \in CategoryTables
  /\ product \in {{}, {LegacyProduct}}
  /\ files = {}
  /\ nextCategoryId = 3
  /\ nextProductId = IF product = {} THEN 1 ELSE 2
  /\ nextFile = 1
  /\ users = {}
  /\ req = [w \in Workers |-> Idle]
  /\ res = [w \in Workers |-> NoResponse]
  /\ started = 0
  /\ now = 0

\* the product router, one request at a time, over attribute-bag requests
ProductNext == ProductStep(1, BagInputs)

ProductSpec == ProductInit /\ [][ProductNext]_vars

\* the product router, one request at a time, over uploading requests
UploadNext == ProductStep(1, UploadingInputs)

UploadSpec == ProductInit /\ [][UploadNext]_vars

\* updates and deletes of product 1 that set disjoint parts of the attribute
\* bag: the power key, or the category IDs
RaceInputs == [ids |-> {<<"1">>},
               bags |-> {Undefined, PowerOnly},
               categoryIds |-> {NoIds, Ids(<<2, 1>>)},
               prices |-> {"undefined"},
               uploads |-> {Upload(0, 0)},
               requests |-> MaxRaceRequests]

\* product updates and deletes on concurrent connections
ProductRaceNext ==
  \E w \in Workers :
    \/ ProductUpdate(w, RaceInputs)
    \/ ProductUpdateSelect(w)
    \/ ProductUpdateWrite(w)
    \/ ProductDelete(w, RaceInputs)
    \/ ProductDeleteSelect(w)
    \/ ProductDeleteWrite(w)

ProductRaceSpec == ProductInit /\ [][ProductRaceNext]_vars

(* --------------------------- login route ------------------------------- *)

\* bcrypt.hash(password, 10)
Hash(password) == <<"bcrypt">> \o password

\* a comparison that accepts every password
compareAny(password, hash) == TRUE

\* bcrypt.compare(password, hash)
compare(password, hash) == Hash(password) = hash

\* authSchema: username of at least 3 characters, password of at least 6
authSchema(username, password) == Len(username) >= 3 /\ Len(password) >= 6

\* the two tryCatch wrappers of the repository: one answers a ZodError with
\* 400, the other answers every error with 500
ErrorHandlers == {"zodAware", "plain"}

tryCatchZodError(handler) ==
  IF handler = "zodAware"
    THEN ErrorResponse(BAD_REQUEST, "Validation error")
    ELSE ErrorResponse(INTERNAL_SERVER_ERROR, "Internal server error")

\* db.select().from(users).where(eq(users.username, username)).limit(1)
UserByName(username) == {u \in users : u.username = username}

\* POST /login: authSchema.parse(req.body)
Login(w, I) ==
  /\ Accept(w, I)
  /\ \E u \in I.usernames, p \in I.passwords :
       LET r == [Idle EXCEPT !.op = "login", !.username = u, !.password = p]
       IN IF ~authSchema(u, p)
            THEN /\ req' = [req EXCEPT ![w] = Finished(r)]
                 /\ \E h \in ErrorHandlers : Respond(w, tryCatchZodError(h))
            ELSE /\ req' = [req EXCEPT ![w] = [r EXCEPT !.pc = "select"]]
                 /\ Respond(w, NoResponse)
  /\ UNCHANGED <<category, product, files, nextCategoryId, nextProductId,
                 nextFile, users, now>>

\* the user lookup
LoginSelect(w) ==
  /\ req[w].op = "login" /\ req[w].pc = "select"
  /\ IF UserByName(req[w].username) = {}
       THEN /\ req' = [req EXCEPT ![w] = Finished(req[w])]
            /\ Respond(w, ErrorResponse(UNAUTHORIZED, "Invalid credentials"))
       ELSE /\ req' = [req EXCEPT ![w].pc = "compare",
                                  ![w].existingUser =
                                     CHOOSE u \in UserByName(req[w].username) : TRUE]
            /\ UNCHANGED res
  /\ UNCHANGED <<category, product, files, nextCategoryId, nextProductId,
                 nextFile, users, now, started>>

\* the password comparison, then the token
LoginCompare(w) ==
  /\ req[w].op = "login" /\ req[w].pc = "compare"
  /\ req' = [req EXCEPT ![w] = Finished(req[w])]
  /\ LET user == req[w].existingUser
     IN IF ~compare(req[w].password, user.password)
          THEN Respond(w, ErrorResponse(UNAUTHORIZED, "Invalid credentials"))
          ELSE Respond(w, [status |-> OK,
                           body |-> [NoBody EXCEPT
                              !.token = generateToken(user.id, user.username),
                              !.user = [id |-> user.id, username |-> user.username]]])
  /\ UNCHANGED <<category, product, files, nextCategoryId, nextProductId,
                 nextFile, users, now, started>>

\* the users the table was seeded with (the register route is commented out)
SeededUsers ==
  {[id |-> 1, username |-> <<"a", "a", "b">>,
    password |-> Hash(<<"x", "x", "x", "x", "x", "y">>)],
   [id |-> 2, username |-> <<"b", "b", "b">>,
    password |-> Hash(<<"y", "y", "y", "y", "y", "y">>)]}

LoginInit ==
  /\ category = {}
  /\ product = {}
  /\ files = {}
  /\ nextCategoryId = 1
  /\ nextProductId = 1
  /\ nextFile = 1
  /\ users = SeededUsers
  /\ req = [w \in Workers |-> Idle]
  /\ res = [w \in Workers |-> NoResponse]
  /\ started = 0
  /\ now = 0

LoginNext == \/ Login(1, LoginInputs)
             \/ LoginSelect(1)
             \/ LoginCompare(1)

LoginSpec == LoginInit /\ [][LoginNext]_vars

(* ---------------------- authenticateToken ------------------------------ *)

\* the characters of an Authorization header, in pieces: a space, a run of
\* text without a space, or a token as jwt.sign returns it
Space == [kind |-> "space", text |-> " ", jwt |-> NoToken]

Text(t) == [kind |-> "text", text |-> t, jwt |-> NoToken]

Jwt(t) == [kind |-> "jwt", text |-> "", jwt |-> t]

\* authHeader.split(" "): the runs between the spaces, an empty run where two
\* spaces meet or the header ends with one
RECURSIVE split(_)
split(h) ==
  IF h = <<>> THEN << <<>> >>
  ELSE LET rest == split(Tail(h))
       IN IF Head(h) = Space
            THEN << <<>> >> \o rest
            ELSE << <<Head(h)>> \o Head(rest) >> \o Tail(rest)

\* req.headers["authorization"] is undefined
NoHeader == <<>>

\* authHeader && authHeader.split(" ")[1]: falsy when the header is absent,
\* when it has no space, and when nothing follows its first space
TokenOf(h) ==
  IF h = NoHeader THEN <<>>
  ELSE IF Len(split(h)) < 2 THEN <<>>
  ELSE split(h)[2]

\* a verification that never looks at the expiry
verifyWithoutExpiry(token, secret) ==
  IF Len(token) # 1 \/ token[1].kind # "jwt"
    THEN [ok |-> FALSE, error |-> "jwt malformed", user |-> NoUserPayload]
  ELSE IF token[1].jwt.secret # secret
    THEN [ok |-> FALSE, error |-> "invalid signature", user |-> NoUserPayload]
  ELSE [ok |-> TRUE, error |-> "",
        user |-> [userId |-> token[1].jwt.payload.userId,
                  username |-> token[1].jwt.payload.username,
                  iat |-> token[1].jwt.iat, exp |-> token[1].jwt.exp]]

\* jwt.verify(token, JWT_SECRET): throws on a string that is not a token, on a
\* signature the secret does not verify, and once the clock has reached exp;
\* returns the decoded payload otherwise
verify(token, secret) ==
  IF Len(token) # 1 \/ token[1].kind # "jwt"
    THEN [ok |-> FALSE, error |-> "jwt malformed", user |-> NoUserPayload]
  ELSE IF token[1].jwt.secret # secret
    THEN [ok |-> FALSE, error |-> "invalid signature", user |-> NoUserPayload]
  ELSE IF now >= token[1].jwt.exp
    THEN [ok |-> FALSE, error |-> "jwt expired", user |-> NoUserPayload]
  ELSE [ok |-> TRUE, error |-> "",
        user |-> [userId |-> token[1].jwt.payload.userId,
                  username |-> token[1].jwt.payload.username,
                  iat |-> token[1].jwt.iat, exp |-> token[1].jwt.exp]]

\* the tokens a client can present: the one the last login answered with, and
\* that token re-signed with a secret of the client's own
HeldTokens(w) ==
  IF res[w].status = OK /\ req[w].op = "login"
    THEN {res[w].body.token, [res[w].body.token EXCEPT !.secret = "forged"]}
    ELSE {}

\* the Authorization headers of a request
Headers(w) ==
  {NoHeader, <<Text("Bearer")>>, <<Text("Bearer"), Space>>,
   <<Text("Bearer"), Space, Text("garbage")>>}
    \cup {<<Text("Bearer"), Space, Jwt(t)>> : t \in HeldTokens(w)}
    \cup {<<Text("Bearer"), Space, Space, Jwt(t)>> : t \in HeldTokens(w)}
    \cup {<<Jwt(t)>> : t \in HeldTokens(w)}

\* authenticateToken(req, res, next); v is the connection that logged in
authenticateToken(w, v, I) ==
  /\ Accept(w, I)
  /\ \E h \in Headers(v) :
       LET token == TokenOf(h)
           r == [Idle EXCEPT !.op = "authenticate", !.header = h]
       IN IF token = <<>>
            THEN /\ req' = [req EXCEPT ![w] = r]
                 /\ Respond(w, ErrorResponse(UNAUTHORIZED, "Authentication required"))
            ELSE LET v1 == verify(token, JWT_SECRET)
                 IN IF v1.ok
                      THEN /\ req' = [req EXCEPT ![w] = [r EXCEPT !.user = v1.user,
                                                                  !.nextCalls = 1]]
                           /\ Respond(w, NoResponse)
                      ELSE /\ req' = [req EXCEPT ![w] = r]
                           /\ Respond(w, ErrorResponse(FORBIDDEN,
                                                       "Invalid or expired token"))
  /\ UNCHANGED <<category, product, files, nextCategoryId, nextProductId,
                 nextFile, users, now>>

\* an hour passes
Tick ==
  /\ now < MaxClock
  /\ now' = now + 1
  /\ UNCHANGED <<category, product, files, nextCategoryId, nextProductId,
                 nextFile, users, req, res, started>>

AuthInputs == [usernames |-> {<<"a", "a", "b">>},
               passwords |-> {Repeat("y", MaxPasswordLen),
                              <<"x", "x", "x", "x", "x", "y">>},
               requests |-> MaxAuthRequests]

\* logins on connection 1, token checks on connection 2, and the clock
AuthNext == \/ Login(1, AuthInputs)
            \/ LoginSelect(1)
            \/ LoginCompare(1)
            \/ authenticateToken(2, 1, AuthInputs)
            \/ Tick

AuthSpec == LoginInit /\ [][AuthNext]_vars

(* ------------------------------ claims --------------------------------- *)

Quiescent == \A w \in Workers : req[w].pc = "done"

\* C1: of the create requests that carry one name at most one inserts a row:
\* no two connections both hold a 201 for rows of the same name that are both
\* in the table.
C1_OneInsertPerName ==
  \A v, w \in Workers :
    (/\ v # w
     /\ req[v].op = "categoryCreate" /\ res[v].status = CREATED
     /\ req[w].op = "categoryCreate" /\ res[w].status = CREATED
     /\ res[v].body.row \in category /\ res[w].body.row \in category)
    => res[v].body.row.name # res[w].body.row.name

\* C2: no two rows of the category table have the same name.
C2_UniqueNames == \A r, s \in category : r.name = s.name => r = s

DeleteStep(w) ==
  req[w].op = "categoryDelete" /\ req[w].pc = "write" /\ req'[w].pc = "done"

DeleteNotFoundStep(w) ==
  /\ req[w].op = "categoryDelete" /\ req[w].pc = "select"
  /\ res'[w].status = NOT_FOUND

GetByIdStep(w) ==
  /\ req[w].pc = "done" /\ started' # started
  /\ \A v \in Workers \ {w} : req'[v] = req[v] /\ res'[v] = res[v]
  /\ req'[w].op = "categoryGetById" /\ req'[w].id # NaN

\* what C3 says of everything but the image file: the row is removed and the
\* response is 200 with the message; a deleted id stays deleted and getById
\* answers 404 for it; delete of an id with no row answers 404 and changes no
\* row and no file
DeleteContract(w) ==
  /\ DeleteStep(w) =>
       /\ res'[w] = DeletedResponse(req[w].found.name)
       /\ res'[w].status = OK /\ res'[w].body.success
       /\ {r \in category' : r.id = req[w].id} = {}
  /\ (req[w].op = "categoryDelete" /\ req[w].pc = "select"
        /\ req'[w] # req[w] /\ CategoryById(req[w].id) # {}) => req'[w].pc = "write"
  /\ DeleteNotFoundStep(w) =>
       /\ CategoryById(req[w].id) = {}
       /\ category' = category /\ files' = files
  /\ GetByIdStep(w) =>
       (res'[w].status = NOT_FOUND <=> CategoryById(req'[w].id) = {})
  /\ \A id \in 1..(nextCategoryId - 1) :
       CategoryById(id) = {} => {r \in category' : r.id = id} = {}

\* C3 as stated: delete of an existing id removes the image file and the row
\* and answers 200 "Successfully deleted '<name>'", later getById answers 404,
\* and delete of a missing id answers 404 and changes nothing.
C3_DeleteRemovesFileAndRow ==
  [][\A w \in Workers :
       /\ DeleteContract(w)
       /\ (DeleteStep(w) /\ req[w].found.imageUrl # Null) =>
            ImagePath(req[w].found.imageUrl) \notin files']_vars

\* C3 amended: as C3, but the image file is removed unless its removal threw,
\* in which case the error was logged and the delete went on.
C3_DeleteBestEffortFile ==
  [][\A w \in Workers :
       /\ DeleteContract(w)
       /\ (DeleteStep(w) /\ req[w].found.imageUrl # Null) =>
            (ImagePath(req[w].found.imageUrl) \notin files' \/ req[w].logged)]_vars

\* a delete answered 200 for a row that had an image, the file now gone
C3_Witness ==
  \E w \in Workers :
    /\ req[w].op = "categoryDelete" /\ req[w].pc = "done"
    /\ res[w].status = OK /\ res[w].body.success
    /\ req[w].found.imageUrl # Null
    /\ ~req[w].logged
    /\ ImagePath(req[w].found.imageUrl) \notin files
    /\ CategoryById(req[w].id) = {}

\* C4: a request that uploads a file of a disallowed type, to category
\* create/update or product create/update, is answered 400.
C4_DisallowedUploadRejected ==
  \A w \in Workers :
    (/\ req[w].pc = "done"
     /\ \/ /\ req[w].op \in {"categoryCreate", "categoryUpdate"}
           /\ req[w].upload \notin {"none", "png"}
        \/ /\ req[w].op \in {"productCreate", "productUpdate"}
           /\ req[w].images.nBad > 0)
    => res[w].status = BAD_REQUEST

CategoryImagePaths == {ImagePath(r.imageUrl) : r \in {c \in category : c.imageUrl # Null}}

ProductImages(p) ==
  {p.machineData.val.images[i] : i \in 1..Len(p.machineData.val.images)}

ProductImagePaths == UNION {{ImagePath(u) : u \in ProductImages(p)} : p \in product}

\* C5: between requests, every image URL an entity references names a file
\* that exists in the uploads directory.
C5_ReferencedFilesExist ==
  Quiescent => (CategoryImagePaths \cup ProductImagePaths) \subseteq files

\* the entities that reference a stored file
Owners(f) ==
  {<<"category", r.id>> : r \in {c \in category : c.imageUrl # Null
                                                  /\ ImagePath(c.imageUrl) = f}}
    \cup {<<"product", p.id>> :
            p \in {x \in product : \E u \in ProductImages(x) : ImagePath(u) = f}}

\* C6: between requests, every stored file is referenced by exactly one
\* entity.
C6_EveryFileOwnedOnce ==
  Quiescent => \A f \in files : Cardinality(Owners(f)) = 1

ProductUpdateWriteStep(w) ==
  /\ req[w].op = "productUpdate" /\ req[w].pc = "write" /\ req'[w].pc = "done"
  /\ res'[w].status = OK /\ ProductById(req[w].id) # {}

\* the keys an update request supplies
SuppliedKeys(r) ==
  (IF r.machineData.kind = "object" THEN r.machineData.json.has ELSE {})
    \cup (IF r.categoryIds.kind = "array" THEN {"categories"} ELSE {})

\* C7: a product update keeps every machineData key the request does not
\* supply (present or absent, with its stored value) and sets every key it
\* supplies; with neither machineData nor categoryIds machineData is unchanged.
C7_UpdatePreservesOtherKeys ==
  [][\A w \in Workers :
       ProductUpdateWriteStep(w) =>
         LET old == (CHOOSE x \in ProductById(req[w].id) : TRUE).machineData
             new == (CHOOSE x \in {y \in product' : y.id = req[w].id} : TRUE).machineData
             given == SuppliedKeys(req[w])
         IN /\ \A k \in Keys \ given :
                 (k \in new.has <=> k \in old.has) /\ new.val[k] = old.val[k]
            /\ \A k \in given :
                 /\ k \in new.has
                 /\ new.val[k] = IF k = "categories" /\ req[w].categoryIds.kind = "array"
                                    THEN req[w].categoryIds.ids
                                    ELSE req[w].machineData.json.val[k]
            /\ given = {} => new = old
            /\ res'[w].body.product.machineData = new]_vars

\* an update that set power answered 200: torque, images and categories are
\* as the row had them
C7_Witness ==
  \E w \in Workers :
    /\ req[w].op = "productUpdate" /\ req[w].pc = "done" /\ res[w].status = OK
    /\ res[w].body.product \in product
    /\ LET old == req[w].existing.machineData
           new == res[w].body.product.machineData
       IN /\ {"images", "categories", "power", "torque"} \subseteq old.has
          /\ old.val.images # <<>>
          /\ new.val.power # old.val.power
          /\ new.val.torque = old.val.torque
          /\ new.val.images = old.val.images
          /\ new.val.categories = old.val.categories

\* the existing categories whose id is in the product's machineData.categories
CategoriesOf(p) ==
  {c \in category : /\ "categories" \in p.machineData.has
                    /\ c.id \in IdsOf(p.machineData.val.categories)}

ProductUploadStep(w) ==
  /\ started' # started
  /\ \A v \in Workers \ {w} : req'[v] = req[v] /\ res'[v] = res[v]
  /\ req'[w].op \in {"productCreate", "productUpdate"}

\* C9: a product create or update that uploads more than 10 images is
\* answered 400 on both routes, writes no row and leaves no file.
C9_TooManyImagesRejected ==
  [][\A w \in Workers :
       (ProductUploadStep(w)
         /\ req'[w].images.nOk + req'[w].images.nBad > LimitFiles)
       => /\ req'[w].pc = "done"
          /\ res'[w].status = BAD_REQUEST
          /\ product' = product
          /\ files' = files]_vars

\* an update with 11 images answered 400
C9_Witness ==
  \E w \in Workers :
    /\ req[w].op = "productUpdate" /\ req[w].pc = "done"
    /\ req[w].images.nOk + req[w].images.nBad > LimitFiles
    /\ req[w].images.nOk > 0
    /\ res[w].status = BAD_REQUEST
    /\ product # {}

\* the user the credentials belong to, if any
Matching(username, password) ==
  {u \in users : u.username = username /\ Hash(password) = u.password}

LoginDone(w) == req[w].op = "login" /\ req[w].pc = "done"

\* 200 with a token that decodes to the user, or 401 "Invalid credentials"
LoginAnswer(w) ==
  LET m == Matching(req[w].username, req[w].password)
  IN IF m # {}
       THEN /\ res[w].status = OK
            /\ \E u \in m : res[w].body.token.payload
                               = [userId |-> u.id, username |-> u.username]
       ELSE /\ res[w].status = UNAUTHORIZED
            /\ res[w].body.error = "Invalid credentials"

\* C10 as stated: login answers 200 with the user's token exactly when the
\* user exists and the password matches, 401 "Invalid credentials" for every
\* other pair whatever its length, and never changes the users table.
C10_LoginAnswers ==
  /\ users = SeededUsers
  /\ \A w \in Workers : LoginDone(w) => LoginAnswer(w)

\* C10 amended: as C10 for pairs that pass authSchema (username of at least 3
\* characters, password of at least 6); any other pair is rejected before the
\* lookup with a validation error (400, or 500 under the plain tryCatch),
\* never 401 and never 200.
C10_LoginAnswersValidated ==
  /\ users = SeededUsers
  /\ \A w \in Workers :
       LoginDone(w) =>
         IF Len(req[w].username) >= 3 /\ Len(req[w].password) >= 6
           THEN LoginAnswer(w)
           ELSE /\ res[w].status \in {BAD_REQUEST, INTERNAL_SERVER_ERROR}
                /\ res[w].body.error # "Invalid credentials"
                /\ res[w].body.token = NoToken

\* a login answered 200 with the token of the user it named
C10_Witness ==
  \E w \in Workers :
    /\ LoginDone(w) /\ res[w].status = OK
    /\ \E u \in users :
         /\ u.username = req[w].username
         /\ res[w].body.token.payload = [userId |-> u.id, username |-> u.username]

\* a category delete or update whose image removal threw
RemovalFailed(w) ==
  req[w].op \in {"categoryDelete", "categoryUpdate"} /\ req[w].logged

\* C11: a failed image removal never blocks the mutation: the request goes on
\* to its database write, a delete answers 200 with success and the row is
\* gone, an update with a new image answers 200 with the updated row, which
\* is in the table and carries the new image URL; the file whose removal
\* failed is still stored.
C11_RemovalFailureSwallowed ==
  \A w \in Workers :
    RemovalFailed(w) =>
      /\ ImagePath(req[w].found.imageUrl) \in files
      /\ IF req[w].pc # "done"
           THEN req[w].pc = "write" /\ res[w] = NoResponse
           ELSE IF req[w].op = "categoryDelete"
           THEN /\ res[w] = DeletedResponse(req[w].found.name)
                /\ res[w].status = OK /\ res[w].body.success
                /\ CategoryById(req[w].id) = {}
           ELSE /\ res[w].status = OK
                /\ res[w].body.row \in category
                /\ res[w].body.row.id = req[w].id
                /\ res[w].body.row.imageUrl = ImageUrl("categories", req[w].file)
                /\ res[w].body.row.imageUrl # req[w].found.imageUrl

\* an update with a new image answered 200 although the old image could not
\* be removed
C11_Witness ==
  \E w \in Workers :
    /\ req[w].op = "categoryUpdate" /\ req[w].pc = "done" /\ req[w].logged
    /\ req[w].file # 0
    /\ res[w].status = OK /\ res[w].body.row \in category
    /\ ImagePath(req[w].found.imageUrl) \in files

\* a delete answered 200 although the image could not be removed
C11_DeleteWitness ==
  \E w \in Workers :
    /\ req[w].op = "categoryDelete" /\ req[w].pc = "done" /\ req[w].logged
    /\ res[w].status = OK /\ CategoryById(req[w].id) = {}
    /\ ImagePath(req[w].found.imageUrl) \in files

\* the step at which authenticateToken runs on connection w
AuthStep(w) ==
  /\ started' # started /\ req'[w].op = "authenticate"
  /\ \A v \in Workers \ {w} : req'[v] = req[v] /\ res'[v] = res[v]

\* a token part that is a token as jwt.sign returns it
WellFormed(t) == Len(t) = 1 /\ t[1].kind = "jwt"

\* signed with the server's secret and less than 24 hours old
ValidUnexpired(t) ==
  t[1].jwt.secret = JWT_SECRET /\ now < t[1].jwt.iat + ExpiresIn

AuthUnauthorized(w) ==
  /\ res'[w] = ErrorResponse(UNAUTHORIZED, "Authentication required")
  /\ req'[w].nextCalls = 0 /\ req'[w].user = NoUserPayload

AuthForbidden(w) ==
  /\ res'[w] = ErrorResponse(FORBIDDEN, "Invalid or expired token")
  /\ req'[w].nextCalls = 0 /\ req'[w].user = NoUserPayload

AuthPassed(w, t) ==
  /\ res'[w] = NoResponse
  /\ req'[w].nextCalls = 1
  /\ req'[w].user.userId = t[1].jwt.payload.userId
  /\ req'[w].user.username = t[1].jwt.payload.username

\* C12 as stated: a missing or malformed token is answered 401 and next is
\* not called; a well-formed token with an invalid signature or 24 hours old
\* is answered 403 and next is not called; a valid unexpired token passes
\* {userId, username} to next, called once.
C12_ThreeOutcomes ==
  [][\A w \in Workers :
       AuthStep(w) =>
         LET t == TokenOf(req'[w].header)
         IN IF t = <<>> \/ ~WellFormed(t) THEN AuthUnauthorized(w)
            ELSE IF ~ValidUnexpired(t) THEN AuthForbidden(w)
            ELSE AuthPassed(w, t)]_vars

\* C12 amended: 401 only when the header carries no token (no header, no
\* space in it, or nothing after its first space); every token jwt.verify
\* rejects, whether malformed, signed with another secret or 24 hours old, is
\* answered 403; in both cases next is not called; a valid unexpired token
\* passes {userId, username} to next, called once.
C12_ThreeOutcomesByVerify ==
  [][\A w \in Workers :
       AuthStep(w) =>
         LET t == TokenOf(req'[w].header)
         IN IF t = <<>> THEN AuthUnauthorized(w)
            ELSE IF ~WellFormed(t) \/ ~ValidUnexpired(t) THEN AuthForbidden(w)
            ELSE AuthPassed(w, t)]_vars

\* a token issued by login passed the check hours later
C12_Witness ==
  \E w \in Workers :
    /\ req[w].op = "authenticate" /\ req[w].nextCalls = 1
    /\ res[w] = NoResponse
    /\ \E u \in users : req[w].user.userId = u.id
                          /\ req[w].user.username = u.username
    /\ now > req[w].user.iat /\ now < req[w].user.exp

\* a token issued by login answered 403 once 24 hours old
C12_ExpiredWitness ==
  \E w \in Workers :
    /\ req[w].op = "authenticate" /\ res[w].status = FORBIDDEN
    /\ WellFormed(TokenOf(req[w].header))
    /\ TokenOf(req[w].header)[1].jwt.secret = JWT_SECRET
    /\ now >= TokenOf(req[w].header)[1].jwt.exp

\* a header whose token is not a token answered 403
C12_MalformedWitness ==
  \E w \in Workers :
    /\ req[w].op = "authenticate" /\ res[w].status = FORBIDDEN
    /\ TokenOf(req[w].header) # <<>>
    /\ ~WellFormed(TokenOf(req[w].header))

\* the routes with an :id path parameter
IdRoutes == {"categoryGetById", "categoryUpdate", "categoryDelete",
             "productGetById", "productUpdate", "productDelete"}

\* an id string of digits only
PurelyNumeric(s) == s # <<>> /\ \A i \in 1..Len(s) : s[i] \in DigitChars

\* C13: on every route with an :id parameter an id that is not purely numeric
\* is answered 400, so no row is read, changed or deleted for it.
C13_NonNumericIdRejected ==
  \A w \in Workers :
    (req[w].op \in IdRoutes /\ req[w].pc = "done"
       /\ req[w].upload \in {"none", "png"}
       /\ ~PurelyNumeric(req[w].param))
    => res[w].status = BAD_REQUEST

\* GET answered an id string that DELETE refuses
C13_LenientGet ==
  \E w \in Workers :
    /\ req[w].op = "categoryGetById" /\ req[w].pc = "done"
    /\ ~categoryIdSchema(req[w].param)
    /\ res[w].status = OK
    /\ res[w].body.row.id = parseInt(req[w].param)

\* the attribute-bag keys an answered update wrote: those its response row
\* holds with a value the row it read did not have
Wrote(w) ==
  LET before == req[w].existing.machineData
      after == res[w].body.product.machineData
  IN {k \in after.has : k \notin before.has \/ after.val[k] # before.val[k]}

UpdateAnswered(w) ==
  /\ req[w].op = "productUpdate" /\ req[w].pc = "done"
  /\ res[w].status = OK /\ res[w].body.product # NoProduct

\* C14: when two updates of one product that wrote disjoint attribute-bag
\* keys have both been answered, the stored machineData holds the value each
\* of them wrote.
C14_NoLostUpdate ==
  \A v, w \in Workers :
    (/\ v # w /\ UpdateAnswered(v) /\ UpdateAnswered(w)
     /\ req[v].id = req[w].id
     /\ Wrote(v) \cap Wrote(w) = {}
     /\ ProductById(req[v].id) # {})
    => \A u \in {v, w} : \A k \in Wrote(u) :
         \A row \in ProductById(req[u].id) :
           /\ k \in row.machineData.has
           /\ row.machineData.val[k] = res[u].body.product.machineData.val[k]

\* two answered updates that both read the row before either wrote it, and the
\* stored row lacks the key one of them wrote
C14_LostUpdate ==
  \E v, w \in Workers :
    /\ v # w /\ UpdateAnswered(v) /\ UpdateAnswered(w)
    /\ req[v].existing = req[w].existing
    /\ Wrote(v) # {} /\ Wrote(w) # {} /\ Wrote(v) \cap Wrote(w) = {}
    /\ \E row \in ProductById(req[v].id) :
         \E k \in Wrote(v) : k \notin row.machineData.has

\* an update that passed its existence check and has been answered
CategoryUpdateDone(w) ==
  /\ req[w].op = "categoryUpdate" /\ req[w].pc = "done"
  /\ req[w].found # NoRow

ProductUpdateDone(w) ==
  /\ req[w].op = "productUpdate" /\ req[w].pc = "done"
  /\ req[w].existing # NoProduct

\* C15: an update that races with a delete of the same id is never answered
\* 200 without the updated row, and a category update whose row is gone
\* when it writes has neither removed the old image file nor left the file
\* it uploaded.
C15_UpdateAnswersRowOrNotFound ==
  \A w \in Workers :
    /\ CategoryUpdateDone(w) =>
         /\ res[w].status = OK => res[w].body.row # NoRow
         /\ (res[w].status = OK /\ res[w].body.row = NoRow /\ req[w].file # 0) =>
              /\ StoredPath("categories", req[w].file) \notin files
              /\ req[w].found.imageUrl # Null =>
                   ImagePath(req[w].found.imageUrl) \in files
    /\ ProductUpdateDone(w) =>
         (res[w].status = OK => res[w].body.product # NoProduct)

\* a category update answered 200 with no row: a delete of the same id ran
\* between its existence check and its write
C15_UpdateAfterDelete ==
  \E v, w \in Workers :
    /\ CategoryUpdateDone(w)
    /\ res[w].status = OK /\ res[w].body.row = NoRow
    /\ req[v].op = "categoryDelete" /\ req[v].pc = "done"
    /\ req[v].id = req[w].id /\ res[v].status = OK
    /\ CategoryById(req[w].id) = {}

====
